---- MODULE Spec2Model ----
(***************************************************************************)
(* Autoflow: a Blender add-on that remeshes the active object with the     *)
(* external QuadriFlow executable.  The model covers the scene settings    *)
(* (properties.py), the add-on preferences (preferences.py), the helper    *)
(* functions (utils.py), the operators (operators.py) and the tools panel  *)
(* (ui.py).  The host application, the file system and the operating       *)
(* system are the environment.                                             *)
(***************************************************************************)
EXTENDS Integers, Sequences, FiniteSets, TLC

(* ----------------------------- bounds ---------------------------------- *)
\* most objects one import adds to the scene
MaxNew == 2
\* most objects the scene ever holds
MaxObjects == 4
\* names the temporary-directory root can hold
MaxTempNames == 2
\* largest timeout preference a user enters
MaxTimeout == 1
\* largest resolution step above the minimum a user enters
MaxResolutionStep == 1

(* ------------------------- program constants --------------------------- *)
\* properties.py: IntProperty resolution, min=1, default=1000
ResolutionMin == 1
ResolutionDefault == 1000
\* preferences.py: IntProperty quadriflow_timeout, default=0
TimeoutDefault == 0

VARIABLES
  af,           \* scene.autoflow: the AutoflowSettings property group
  addons,       \* user_preferences.addons: enabled add-on names
  preferences,  \* the add-on's stored preferences (ID properties that are set)
  platform,     \* sys.platform
  installed,    \* helper executables `which` finds on PATH
  files,        \* file system: kind of each candidate executable path
  tmpdirs,      \* temporary-directory root: owner of each name
  objects,      \* scene.objects, in scene order
  select,       \* obj.select of every object
  data,         \* obj.type and whether obj.data is a manifold mesh
  active,       \* scene.objects.active
  edit_mode,    \* whether the active object is in edit mode
  op            \* the call that has just returned: operator or panel draw

vars == <<af, addons, preferences, platform, installed, files, tmpdirs,
          objects, select, data, active, edit_mode, op>>

None == "None"
\* context.active_object when no object is active
NoObject == 0
PACKAGE == "autoflow"

Platforms == {"linux", "win32", "darwin"}
Helpers == {"minisat", "timeout"}
\* strings a user can store as the QuadriFlow path
PathStrings == {"", ".", "/opt/quadriflow"}
FileKinds == {"missing", "dir", "noexec", "exec"}
TempNames == {"/tmp/tmp" \o ToString(i) : i \in 1..MaxTempNames}
Resolutions == {ResolutionMin, ResolutionDefault}
                 \cup {ResolutionDefault + i : i \in 1..MaxResolutionStep}
TimeoutValues == (0 - 1)..MaxTimeout

(* --------------------------- pathlib ----------------------------------- *)
\* Path(s), as str() shows it: the empty string and "." are the same path, "."
Path(s) == IF s = "" THEN "." ELSE s
\* Path.exists()
PathExists(p) == files[p] # "missing"
\* Path(dir).joinpath(name + ".obj"), kept as its parts
JoinPath(dir, name) == [parent |-> dir, stem |-> name, suffix |-> ".obj"]
\* str() of a path kept as its parts
PartsStr(p) == p.parent \o "/" \o p.stem \o p.suffix

(* --------------------------- utils.py ---------------------------------- *)
os_is_linux == platform = "linux"
os_is_windows == platform = "win32"
autoflow_is_compatible_with_os == os_is_linux \/ os_is_windows

unix_executable_is_installed(executable_command) ==
  executable_command \in installed

\* a probe that stops at the platform
sat_flag_is_allowed_dropping_helper == os_is_linux
sat_flag_is_allowed ==
  /\ os_is_linux
  /\ unix_executable_is_installed("minisat")
  /\ unix_executable_is_installed("timeout")

get_addon_preferences(addon_name) ==
  IF addon_name \in addons THEN preferences ELSE << >>

get_addon_preference(addon_name, preference, default) ==
  LET addon_preferences == get_addon_preferences(addon_name)
  IN IF preference \in DOMAIN addon_preferences
       THEN addon_preferences[preference] ELSE default

get_quadriflow_path_from_addon_prefs ==
  Path(get_addon_preference(PACKAGE, "quadriflow_path", ""))

Max(a, b) == IF a >= b THEN a ELSE b

\* a reader that hands the stored timeout on as it is
get_quadriflow_timeout_unclamped ==
  get_addon_preference(PACKAGE, "quadriflow_timeout", TimeoutDefault)

get_quadriflow_timeout_from_addon_prefs ==
  Max(get_addon_preference(PACKAGE, "quadriflow_timeout", TimeoutDefault), 0)

quadriflow_path_pref_is_set == get_quadriflow_path_from_addon_prefs # Path("")

get_quadriflow_output_path(input_path) ==
  [input_path EXCEPT !.stem = input_path.stem \o "_remeshed"]

\* obj.mode: only the active object can be in edit mode
ModeOf(obj) == IF obj = active /\ edit_mode THEN "EDIT" ELSE "OBJECT"
TypeOf(obj) == IF data[obj] = "CAMERA" THEN "CAMERA" ELSE "MESH"
NameOf(obj) == "Object" \o ToString(obj)

object_can_be_remeshed(obj) ==
  /\ obj # NoObject
  /\ ModeOf(obj) = "OBJECT"
  /\ TypeOf(obj) = "MESH"
  /\ select[obj]

\* "-mcf" * flag: the token when the flag is set, the empty string otherwise
StrTimes(token, flag) == IF flag THEN token ELSE ""

get_objects_in_scene(objs, objects_to_ignore) ==
  SelectSeq(objs, LAMBDA o : \A i \in DOMAIN objects_to_ignore :
                                objects_to_ignore[i] # o)

get_selected_objects_in_scene(objs, sel) ==
  SelectSeq(get_objects_in_scene(objs, << >>), LAMBDA o : sel[o])

Range(s) == {s[i] : i \in DOMAIN s}

select_only_objects_in_scene(objs, chosen) ==
  [o \in Range(objs) |-> o \in Range(chosen)]

\* the properties add_quadriflow_args_to_layout puts on a layout
add_quadriflow_args_to_layout ==
  <<"min_cost_flow", "sharp_preserving">>
    \o (IF sat_flag_is_allowed THEN <<"flip_removal">> ELSE << >>)
    \o <<"require_manifold", "resolution">>

\* a probe that takes every mesh for manifold
mesh_is_manifold_always(mesh) == TRUE
mesh_is_manifold(mesh) == mesh = "MESH_MANIFOLD"

\* the command line remesh_with_quadriflow builds
quadriflow_cmd(input_path, output_path, autoflow_args) ==
  << get_quadriflow_path_from_addon_prefs,
     StrTimes("-mcf", autoflow_args.min_cost_flow),
     StrTimes("-sharp", autoflow_args.sharp_preserving),
     StrTimes(StrTimes("-sat", sat_flag_is_allowed), autoflow_args.flip_removal),
     "-i", input_path, "-o", output_path,
     "-f", ToString(autoflow_args.resolution) >>

\* timeout=timeout if timeout else None: the timeouts subprocess.run enforces
run_timeout(timeout) == IF timeout # 0 THEN {timeout} ELSE {}

(* ---------------------- subprocess and the host ------------------------- *)
\* what subprocess.run(cmd, check=False, timeout=t) can do
RunOutcomes(cmd, t) ==
  CASE files[cmd[1]] = "missing" -> {"FileNotFoundError"}
    [] files[cmd[1]] \in {"dir", "noexec"} -> {"PermissionError"}
    [] OTHER -> {"exit0", "exit1", "OSError", "SubprocessError"}
                  \cup (IF t # {} THEN {"TimeoutExpired"} ELSE {})

\* a launch that takes a non-zero exit status for a failure (check=True)
RunReturned_only_zero(outcome) == outcome = "exit0"
\* subprocess.run returned a CompletedProcess, whatever its exit status
RunReturned(outcome) == outcome \in {"exit0", "exit1"}

\* an except clause that also takes a missing executable
IsSubprocessError_or_missing(outcome) ==
  outcome \in {"SubprocessError", "TimeoutExpired", "FileNotFoundError"}
\* exceptions that are instances of subprocess.SubprocessError
IsSubprocessError(outcome) == outcome \in {"SubprocessError", "TimeoutExpired"}

\* tempfile.mkdtemp: the names it can create
mkdtemp(dirs) == {d \in DOMAIN dirs : dirs[d] = "absent"}

\* an exit that leaves the directory behind
TemporaryDirectory_leaving_directory(dirs, d) == dirs
\* TemporaryDirectory.__exit__: the directory is removed
TemporaryDirectory_exit(dirs, d) == [dirs EXCEPT ![d] = "absent"]

\* scene.objects once the import operator has added n objects
ObjectsAfterImport(objs, n, at_head) ==
  LET first == Len(objs) + 1
      made == [i \in 1..n |-> first + i - 1]
      rev == [i \in 1..n |-> first + n - i]
  IN IF at_head THEN rev \o objs ELSE objs \o made

(* --------------------------- operators.py ------------------------------- *)
MSG_MANIFOLD == "The 'Require Manifold Input' option is set to True, but the active object's mesh is not manifold"
MSG_PERMISSION == "There was a permission error during QuadriFlow processing"
MSG_SUBPROCESS == "There was a subprocess error during QuadriFlow processing"

\* Python values handed to Operator.report as its type argument
PySet(x) == [py |-> "set", items |-> {x}]
PyStr(x) == [py |-> "str", items |-> {x}]

\* Operator.report(type, message): the host takes a set of report types and
\* raises TypeError for anything else; it returns None
report(o, type, message) ==
  IF type.py = "set"
    THEN [o EXCEPT !.reports = Append(@, [type |-> type.items, message |-> message])]
    ELSE [o EXCEPT !.raised = "TypeError"]

\* no operator call is being looked at
Idle ==
  [kind |-> "idle", result |-> None, raised |-> None, reports |-> << >>,
   calls |-> << >>, run |-> None, cmd |-> << >>, timeout |-> {}, tempdir |-> None,
   initial_objects |-> << >>, initial_selected_objects |-> << >>,
   new_objects |-> << >>, props |-> << >>, button |-> [enabled |-> FALSE],
   pre |-> [kind |-> "idle"]]

\* what the environment looked like when the operator was called
Snapshot ==
  [objects |-> objects, select |-> select, active |-> active,
   tmpdirs |-> tmpdirs, af |-> af,
   linux |-> os_is_linux, installed |-> installed,
   exe |-> files[get_quadriflow_path_from_addon_prefs],
   path_set |-> quadriflow_path_pref_is_set,
   path_exists |-> PathExists(get_quadriflow_path_from_addon_prefs),
   can_remesh |-> object_can_be_remeshed(active),
   os_ok |-> autoflow_is_compatible_with_os,
   stored_timeout |-> get_addon_preference(PACKAGE, "quadriflow_timeout", TimeoutDefault)]

\* AutoflowOperator.poll
poll == active # NoObject /\ ModeOf(active) = "OBJECT"

\* lines 117-124: the selection and the active object at the end of execute
new_objects_of(objs, initial_objects) == get_objects_in_scene(objs, initial_objects)

\* a restore that takes the recorded objects for the recorded selection
final_select_restoring_all(objs, initial_objects, initial_selected_objects) ==
  LET new_objects == new_objects_of(objs, initial_objects)
  IN IF new_objects # << >>
       THEN select_only_objects_in_scene(objs, new_objects)
       ELSE select_only_objects_in_scene(objs, initial_objects)

final_select(objs, initial_objects, initial_selected_objects) ==
  LET new_objects == new_objects_of(objs, initial_objects)
  IN IF new_objects # << >>
       THEN select_only_objects_in_scene(objs, new_objects)
       ELSE select_only_objects_in_scene(objs, initial_selected_objects)

\* an end that makes the first new object active
final_active_first_new(objs, initial_objects, act) ==
  LET new_objects == new_objects_of(objs, initial_objects)
  IN IF new_objects # << >> THEN new_objects[1] ELSE act

final_active(objs, initial_objects, act) ==
  LET new_objects == new_objects_of(objs, initial_objects)
  IN IF new_objects # << >> THEN new_objects[Len(new_objects)] ELSE act

\* the temporary directory's name, or None when mkdtemp finds no free name
TempChoices == IF mkdtemp(tmpdirs) = {} THEN {None} ELSE mkdtemp(tmpdirs)

\* lines 75-95: the command line and the timeout execute hands to subprocess.run
execute_cmd(temp_directory) ==
  LET obj_path == JoinPath(temp_directory, NameOf(active))
      remeshed_path == get_quadriflow_output_path(obj_path)
  IN quadriflow_cmd(PartsStr(obj_path), PartsStr(remeshed_path), af)

execute_timeout == run_timeout(get_quadriflow_timeout_from_addon_prefs)

\* AutoflowOperator.execute: the call record and the scene it leaves, given
\* what the collaborators do
execute(temp_directory, export_raises, run_outcome, import_raises, n, at_head) ==
  LET active_obj == active
      called == [Idle EXCEPT !.kind = "execute", !.pre = Snapshot]
      initial_objects == get_objects_in_scene(objects, << >>)
      initial_selected_objects == get_selected_objects_in_scene(objects, select)
      isolated == select_only_objects_in_scene(objects, <<active_obj>>)
      started == [called EXCEPT !.initial_objects = initial_objects,
                                !.initial_selected_objects = initial_selected_objects,
                                !.calls = <<"mkdtemp">>]
      dirs_in == [tmpdirs EXCEPT ![temp_directory] = "autoflow"]
      dirs_out == TemporaryDirectory_exit(dirs_in, temp_directory)
      in_block == [started EXCEPT !.tempdir = temp_directory,
                                  !.calls = Append(@, "export")]
      launched == [in_block EXCEPT !.calls = Append(@, "run"),
                                   !.run = run_outcome,
                                   !.cmd = execute_cmd(temp_directory),
                                   !.timeout = execute_timeout]
      importing == [launched EXCEPT !.calls = Append(@, "import")]
      imported == ObjectsAfterImport(objects, n, at_head)
      imported_data == [o \in Range(imported) |->
                          IF o \in DOMAIN data THEN data[o] ELSE "MESH_MANIFOLD"]
      Scene(o, objs, sel, act, dat, dirs) ==
        [op |-> o, objects |-> objs, select |-> sel, active |-> act,
         data |-> dat, tmpdirs |-> dirs]
      \* an exception leaves execute: the selection stays isolated
      Raise(o, exception, dirs) ==
        Scene([o EXCEPT !.raised = exception], objects, isolated, active, data, dirs)
      \* lines 117-126
      Finish(o, objs, dat) ==
        Scene([o EXCEPT !.result = "FINISHED",
                        !.new_objects = new_objects_of(objs, initial_objects)],
              objs,
              final_select(objs, initial_objects, initial_selected_objects),
              final_active(objs, initial_objects, active),
              dat, dirs_out)
  IN
  IF af.require_manifold /\ data[active_obj] = "CAMERA"
    THEN \* bmesh.from_mesh refuses data that is no mesh
         Scene([called EXCEPT !.raised = "TypeError"],
               objects, select, active, data, tmpdirs)
  ELSE IF af.require_manifold /\ ~mesh_is_manifold(data[active_obj])
    THEN Scene([report(called, PySet("ERROR"), MSG_MANIFOLD) EXCEPT !.result = "FINISHED"],
               objects, select, active, data, tmpdirs)
  ELSE IF temp_directory = None
    THEN Raise(started, "FileExistsError", tmpdirs)
  ELSE IF export_raises
    THEN Raise(in_block, "RuntimeError", dirs_out)
  ELSE IF run_outcome = "PermissionError"
    THEN Finish(report(launched, PySet("ERROR"), MSG_PERMISSION), objects, data)
  ELSE IF IsSubprocessError(run_outcome)
    THEN Finish(report(launched, PySet("ERROR"), MSG_SUBPROCESS), objects, data)
  ELSE IF ~RunReturned(run_outcome)
    THEN Raise(launched, run_outcome, dirs_out)
  ELSE IF import_raises
    THEN Raise(importing, "RuntimeError", dirs_out)
  ELSE Finish(importing, imported, imported_data)

\* what the collaborators can do during one execute: whether the export
\* raises, how subprocess.run ends, whether the import raises, how many
\* objects it adds and where the host puts them in scene.objects
World(export_raises, run_outcome, import_raises, n, at_head) ==
  [export_raises |-> export_raises, run_outcome |-> run_outcome,
   import_raises |-> import_raises, n |-> n, at_head |-> at_head]

Worlds(temp_directory) ==
  IF temp_directory = None \/ (af.require_manifold /\ ~mesh_is_manifold(data[active]))
    THEN {World(FALSE, "exit0", FALSE, 0, FALSE)}
    ELSE LET outcomes == RunOutcomes(execute_cmd(temp_directory), execute_timeout)
             returned == {r \in outcomes : RunReturned(r)}
             room == MaxObjects - Len(objects)
         IN {World(TRUE, "exit0", FALSE, 0, FALSE)}
              \cup {World(FALSE, r, FALSE, 0, FALSE) : r \in outcomes}
              \cup {World(FALSE, r, TRUE, 0, FALSE) : r \in returned}
              \cup {World(FALSE, r[1], FALSE, r[2], r[3]) :
                      r \in {x \in returned \X (1..MaxNew) \X BOOLEAN : x[2] <= room}}

\* the operator runs: from the panel's button, from a script, or from the
\* dialog's OK button
Execute ==
  /\ op.kind \in {"idle", "dialog"}
  /\ poll
  /\ \E temp_directory \in TempChoices :
       \E w \in Worlds(temp_directory) :
         LET r == execute(temp_directory, w.export_raises, w.run_outcome,
                          w.import_raises, w.n, w.at_head)
         IN /\ op' = r.op
            /\ objects' = r.objects
            /\ select' = r.select
            /\ active' = r.active
            /\ data' = r.data
            /\ tmpdirs' = r.tmpdirs
  /\ UNCHANGED <<af, addons, preferences, platform, installed, files, edit_mode>>

\* the call is over and its record is dropped; a dialog is cancelled
Return ==
  /\ op.kind # "idle"
  /\ op' = Idle
  /\ UNCHANGED <<af, addons, preferences, platform, installed, files, tmpdirs,
                 objects, select, data, active, edit_mode>>

MSG_PATH_UNSET == "The QuadriFlow Path must be set in the Autoflow add-on preferences before Autoflow can be used."
MSG_PATH_NOT_FOUND == "The QuadriFlow Path that is set in the Autoflow add-on preferences cannot be found on this computer.  Please change the QuadriFlow Path."
MSG_NO_MESH == "A mesh must be selected in object mode to use Autoflow."
MSG_OS == "Autoflow is compatible only with Linux and Windows."

\* AUTOFLOW_OT_remesh_dialog.pre_execution_error_message
pre_execution_error_message ==
  IF ~quadriflow_path_pref_is_set THEN MSG_PATH_UNSET
  ELSE IF ~PathExists(get_quadriflow_path_from_addon_prefs) THEN MSG_PATH_NOT_FOUND
  ELSE IF ~object_can_be_remeshed(active) THEN MSG_NO_MESH
  ELSE IF ~autoflow_is_compatible_with_os THEN MSG_OS
  ELSE ""

\* AUTOFLOW_OT_remesh_dialog.invoke
invoke ==
  LET called == [Idle EXCEPT !.kind = "invoke", !.pre = Snapshot]
      error_message == pre_execution_error_message
  IN IF error_message # ""
       THEN report(called, PyStr("ERROR"), error_message)
       ELSE [called EXCEPT !.kind = "dialog",
                           !.calls = <<"invoke_props_dialog">>,
                           !.result = "RUNNING_MODAL",
                           !.props = add_quadriflow_args_to_layout]

\* Ctrl+R in the 3D view: the host calls invoke when poll allows it
Invoke ==
  /\ op.kind = "idle"
  /\ poll
  /\ op' = invoke
  /\ UNCHANGED <<af, addons, preferences, platform, installed, files, tmpdirs,
                 objects, select, data, active, edit_mode>>

(* ------------------------------- ui.py ---------------------------------- *)
Button(text, icon, enabled) == [text |-> text, icon |-> icon, enabled |-> enabled]

\* a panel that looks for the object before it looks for the file
draw_button_object_first ==
  IF ~quadriflow_path_pref_is_set
    THEN Button("Set QuadriFlow path", "ERROR", FALSE)
  ELSE IF ~object_can_be_remeshed(active)
    THEN Button("Select a mesh in object mode", "ERROR", FALSE)
  ELSE IF ~PathExists(get_quadriflow_path_from_addon_prefs)
    THEN Button("QuadriFlow path not found", "ERROR", FALSE)
  ELSE IF ~autoflow_is_compatible_with_os
    THEN Button("Autoflow is for Linux or Windows", "ERROR", FALSE)
  ELSE Button("Autoflow Remesh", "FILE_TICK", TRUE)

\* AUTOFLOW_PT_tools_panel.draw, lines 43-73: the column with the button
draw_button ==
  IF ~quadriflow_path_pref_is_set
    THEN Button("Set QuadriFlow path", "ERROR", FALSE)
  ELSE IF ~PathExists(get_quadriflow_path_from_addon_prefs)
    THEN Button("QuadriFlow path not found", "ERROR", FALSE)
  ELSE IF ~object_can_be_remeshed(active)
    THEN Button("Select a mesh in object mode", "ERROR", FALSE)
  ELSE IF ~autoflow_is_compatible_with_os
    THEN Button("Autoflow is for Linux or Windows", "ERROR", FALSE)
  ELSE Button("Autoflow Remesh", "FILE_TICK", TRUE)

\* the host redraws the tools panel
Draw ==
  /\ op.kind = "idle"
  /\ op' = [Idle EXCEPT !.kind = "draw", !.pre = Snapshot,
                        !.props = add_quadriflow_args_to_layout,
                        !.button = draw_button]
  /\ UNCHANGED <<af, addons, preferences, platform, installed, files, tmpdirs,
                 objects, select, data, active, edit_mode>>

(* --------------------- the user and the environment --------------------- *)
\* the settings are edited in the panel, or in the dialog while it is open
Editing == op.kind \in {"idle", "dialog"}

SetMinCostFlow ==
  /\ Editing
  /\ af' = [af EXCEPT !.min_cost_flow = ~@]
  /\ UNCHANGED <<addons, preferences, platform, installed, files, tmpdirs,
                 objects, select, data, active, edit_mode, op>>

SetSharpPreserving ==
  /\ Editing
  /\ af' = [af EXCEPT !.sharp_preserving = ~@]
  /\ UNCHANGED <<addons, preferences, platform, installed, files, tmpdirs,
                 objects, select, data, active, edit_mode, op>>

\* the flip_removal checkbox is on the layout only while the flag is allowed
SetFlipRemoval ==
  /\ Editing
  /\ sat_flag_is_allowed
  /\ af' = [af EXCEPT !.flip_removal = ~@]
  /\ UNCHANGED <<addons, preferences, platform, installed, files, tmpdirs,
                 objects, select, data, active, edit_mode, op>>

SetRequireManifold ==
  /\ Editing
  /\ af' = [af EXCEPT !.require_manifold = ~@]
  /\ UNCHANGED <<addons, preferences, platform, installed, files, tmpdirs,
                 objects, select, data, active, edit_mode, op>>

SetResolution ==
  /\ Editing
  /\ \E r \in Resolutions : r # af.resolution /\ af' = [af EXCEPT !.resolution = r]
  /\ UNCHANGED <<addons, preferences, platform, installed, files, tmpdirs,
                 objects, select, data, active, edit_mode, op>>

\* preferences.py: the user stores a QuadriFlow path
SetQuadriflowPath ==
  /\ op.kind = "idle"
  /\ \E s \in PathStrings :
       preferences' = [k \in DOMAIN preferences \cup {"quadriflow_path"} |->
                         IF k = "quadriflow_path" THEN s ELSE preferences[k]]
  /\ UNCHANGED <<af, addons, platform, installed, files, tmpdirs,
                 objects, select, data, active, edit_mode, op>>

\* preferences.py: the user stores a timeout; a script can store any integer
SetQuadriflowTimeout ==
  /\ op.kind = "idle"
  /\ \E t \in TimeoutValues :
       preferences' = [k \in DOMAIN preferences \cup {"quadriflow_timeout"} |->
                         IF k = "quadriflow_timeout" THEN t ELSE preferences[k]]
  /\ UNCHANGED <<af, addons, platform, installed, files, tmpdirs,
                 objects, select, data, active, edit_mode, op>>

\* the file at a configured path is installed, removed or loses its mode bits
ChangeFile ==
  /\ op.kind \in {"idle", "dialog"}
  /\ \E k \in FileKinds \ {"dir"} :
       /\ k # files["/opt/quadriflow"]
       /\ files' = [files EXCEPT !["/opt/quadriflow"] = k]
  /\ UNCHANGED <<af, addons, preferences, platform, installed, tmpdirs,
                 objects, select, data, active, edit_mode, op>>

\* a helper executable is installed on, or removed from, PATH
ChangeHelper ==
  /\ op.kind \in {"idle", "dialog"}
  /\ \E h \in Helpers :
       installed' = IF h \in installed THEN installed \ {h} ELSE installed \cup {h}
  /\ UNCHANGED <<af, addons, preferences, platform, files, tmpdirs,
                 objects, select, data, active, edit_mode, op>>

\* another program creates or removes a directory of its own under the root
ChangeTmp ==
  /\ op.kind = "idle"
  /\ \E d \in TempNames :
       /\ tmpdirs[d] # "autoflow"
       /\ tmpdirs' = [tmpdirs EXCEPT ![d] = IF @ = "absent" THEN "foreign" ELSE "absent"]
  /\ UNCHANGED <<af, addons, preferences, platform, installed, files,
                 objects, select, data, active, edit_mode, op>>

\* the user selects or deselects an object
ToggleSelect ==
  /\ op.kind = "idle"
  /\ ~edit_mode
  /\ \E o \in Range(objects) : select' = [select EXCEPT ![o] = ~@]
  /\ UNCHANGED <<af, addons, preferences, platform, installed, files, tmpdirs,
                 objects, data, active, edit_mode, op>>

\* the user makes an object, or none, the active one
SetActive ==
  /\ op.kind = "idle"
  /\ ~edit_mode
  /\ \E o \in Range(objects) \cup {NoObject} : o # active /\ active' = o
  /\ UNCHANGED <<af, addons, preferences, platform, installed, files, tmpdirs,
                 objects, select, data, edit_mode, op>>

\* Tab: the active mesh enters or leaves edit mode
ToggleEditMode ==
  /\ op.kind = "idle"
  /\ active # NoObject
  /\ TypeOf(active) = "MESH"
  /\ edit_mode' = ~edit_mode
  /\ UNCHANGED <<af, addons, preferences, platform, installed, files, tmpdirs,
                 objects, select, data, active, op>>

(* ------------------------------ sessions -------------------------------- *)
\* properties.py: the defaults of AutoflowSettings
AutoflowSettings ==
  [flip_removal |-> FALSE, min_cost_flow |-> FALSE, require_manifold |-> FALSE,
   resolution |-> ResolutionDefault, sharp_preserving |-> FALSE]

InitialObjects == <<1, 2>>

\* what every session starts with
InitCommon ==
  /\ af = AutoflowSettings
  /\ addons = {PACKAGE}
  /\ tmpdirs = [d \in TempNames |-> "absent"]
  /\ edit_mode = FALSE
  /\ op = Idle

Stored(path, timeout) == [k \in {"quadriflow_path", "quadriflow_timeout"} |->
                            IF k = "quadriflow_path" THEN path ELSE timeout]
FilesWith(kind) == [p \in {".", "/opt/quadriflow"} |-> IF p = "." THEN "dir" ELSE kind]

\* sessions that look at the command line: any platform, a mesh to remesh
InitCmd ==
  /\ InitCommon
  /\ platform \in Platforms
  /\ installed \in SUBSET Helpers
  /\ preferences = Stored("/opt/quadriflow", TimeoutDefault)
  /\ files = FilesWith("exec")
  /\ objects = InitialObjects
  /\ select = [o \in Range(InitialObjects) |-> o = 1]
  /\ data = [o \in Range(InitialObjects) |-> "MESH_MANIFOLD"]
  /\ active = 1

NextCmd ==
  \/ Execute \/ Return
  \/ SetMinCostFlow \/ SetSharpPreserving \/ SetFlipRemoval \/ SetResolution
  \/ ChangeHelper

SpecCmd == InitCmd /\ [][NextCmd]_vars

\* sessions that look at launch errors and the temporary directory
InitErr ==
  /\ InitCommon
  /\ platform = "linux"
  /\ installed = {}
  /\ preferences = [k \in {} |-> ""]
  /\ files = FilesWith("missing")
  /\ objects = InitialObjects
  /\ select = [o \in Range(InitialObjects) |-> o = 1]
  /\ data = [o \in Range(InitialObjects) |-> "MESH_MANIFOLD"]
  /\ active = 1

NextErr ==
  \/ Execute \/ Return
  \/ SetQuadriflowPath \/ SetQuadriflowTimeout \/ ChangeFile \/ ChangeTmp

SpecErr == InitErr /\ [][NextErr]_vars

\* sessions that look at the scene: two meshes, one of them not manifold
InitScene ==
  /\ InitCommon
  /\ platform = "linux"
  /\ installed = {}
  /\ preferences = Stored("/opt/quadriflow", MaxTimeout)
  /\ \E k \in {"noexec", "exec"} : files = FilesWith(k)
  /\ objects = InitialObjects
  /\ select = [o \in Range(InitialObjects) |-> FALSE]
  /\ data = [o \in Range(InitialObjects) |->
               IF o = 1 THEN "MESH_MANIFOLD" ELSE "MESH_NONMANIFOLD"]
  /\ active = NoObject

NextScene ==
  \/ Execute \/ Return
  \/ SetRequireManifold
  \/ ToggleSelect \/ SetActive

SpecScene == InitScene /\ [][NextScene]_vars

\* sessions that look at the panel and the dialog: a mesh and a camera
InitUI ==
  /\ InitCommon
  /\ platform \in {"linux", "darwin"}
  /\ installed = {}
  /\ preferences = [k \in {} |-> ""]
  /\ files = FilesWith("missing")
  /\ objects = InitialObjects
  /\ select = [o \in Range(InitialObjects) |-> FALSE]
  /\ data = [o \in Range(InitialObjects) |->
               IF o = 1 THEN "MESH_MANIFOLD" ELSE "CAMERA"]
  /\ active = NoObject

NextUI ==
  \/ Draw \/ Invoke \/ Execute \/ Return
  \/ SetQuadriflowPath \/ ChangeFile
  \/ ToggleSelect \/ SetActive \/ ToggleEditMode

SpecUI == InitUI /\ [][NextUI]_vars

(* ------------------------------- claims --------------------------------- *)
Executed == op.kind = "execute"
Launched == Executed /\ op.run # None
SatAllowedWhenCalled == op.pre.linux /\ Helpers \subseteq op.pre.installed
SelectedIn(sel) == {o \in DOMAIN sel : sel[o]}
Last(seq) == seq[Len(seq)]

\* the argument vector of section 4.2 of the specification: a flag whose
\* condition is false contributes no element
ExpectedArguments(settings, sat_allowed, input_path, output_path) ==
  (IF settings.min_cost_flow THEN <<"-mcf">> ELSE << >>)
    \o (IF settings.sharp_preserving THEN <<"-sharp">> ELSE << >>)
    \o (IF sat_allowed /\ settings.flip_removal THEN <<"-sat">> ELSE << >>)
    \o <<"-i", input_path, "-o", output_path,
         "-f", ToString(settings.resolution)>>

ExpectedInputPath == op.tempdir \o "/" \o NameOf(op.pre.active) \o ".obj"
ExpectedOutputPath == op.tempdir \o "/" \o NameOf(op.pre.active) \o "_remeshed.obj"

\* C1: the arguments handed to the subprocess after the executable path are
\* exactly the flags whose condition holds, in the order -mcf, -sharp, -sat,
\* then -i, the input path, -o, the output path, -f, the resolution; a flag
\* whose condition is false contributes no element.
C1_ArgumentVectorOmitsFalseFlags ==
  Launched =>
    Tail(op.cmd) = ExpectedArguments(op.pre.af, SatAllowedWhenCalled,
                                     ExpectedInputPath, ExpectedOutputPath)

\* C2: -sat is in the command only if, when the operator was called, the OS
\* was Linux, minisat and timeout were both installed, and flip_removal was set.
C2_SatOnlyWhenAllowedNow ==
  Launched /\ (\E i \in DOMAIN op.cmd : op.cmd[i] = "-sat") =>
    /\ op.pre.linux
    /\ "minisat" \in op.pre.installed
    /\ "timeout" \in op.pre.installed
    /\ op.pre.af.flip_removal

\* C2's case: flip_removal was set while the flag was allowed, a helper has
\* gone since, and a remesh has launched without -sat
C2_Witness ==
  /\ Launched
  /\ op.pre.af.flip_removal
  /\ ~SatAllowedWhenCalled
  /\ \A i \in DOMAIN op.cmd : op.cmd[i] # "-sat"

\* C3: every execution returns FINISHED and lets no exception escape.
C3_NoExceptionEscapes ==
  Executed => op.raised = None /\ op.result = "FINISHED"

CaughtLaunchError ==
  Executed /\ op.run \in {"PermissionError", "SubprocessError", "TimeoutExpired"}

\* C4: when the launch fails with PermissionError, SubprocessError or the
\* expiry of a nonzero timeout, the execution reports exactly one error, does
\* not import, removes the temporary directory and ends with the selection it
\* recorded before isolating the target and with the same active object.
C4_CaughtLaunchErrorRestores ==
  CaughtLaunchError =>
    /\ Len(op.reports) = 1
    /\ op.reports[1].type = {"ERROR"}
    /\ op.result = "FINISHED"
    /\ op.raised = None
    /\ \A i \in DOMAIN op.calls : op.calls[i] # "import"
    /\ tmpdirs[op.tempdir] = "absent"
    /\ objects = op.pre.objects
    /\ SelectedIn(select) = SelectedIn(op.pre.select)
    /\ SelectedIn(select) = Range(op.initial_selected_objects)
    /\ active = op.pre.active
    /\ (op.run = "TimeoutExpired" => op.timeout # {} /\ 0 \notin op.timeout)

\* C4's case: the timeout expired while objects other than the target were selected
C4_Witness ==
  /\ CaughtLaunchError
  /\ op.run = "TimeoutExpired"
  /\ \E o \in SelectedIn(op.pre.select) : o # op.pre.active
  /\ op.pre.active \notin SelectedIn(op.pre.select)

\* C5: the temporary directory of an execution was created by it (the name was
\* free when the operator was called), is gone when the execution is over on
\* every exit path, and no directory of an execution is ever left behind for
\* another execution to find; directories of other programs are left alone.
C5_TemporaryDirectoryScoped ==
  /\ \A d \in DOMAIN tmpdirs : tmpdirs[d] # "autoflow"
  /\ Executed /\ op.tempdir # None =>
       /\ op.pre.tmpdirs[op.tempdir] = "absent"
       /\ tmpdirs[op.tempdir] = "absent"
       /\ tmpdirs = op.pre.tmpdirs

\* C5's case: an exception left the block after the launch, while another
\* program's directory sat beside the execution's own
C5_Witness ==
  /\ Executed
  /\ op.tempdir # None
  /\ op.raised # None
  /\ op.run # None
  /\ \E d \in DOMAIN tmpdirs : tmpdirs[d] = "foreign"

ReachedFinalStep == Executed /\ op.result = "FINISHED" /\ op.calls # << >>
NewInScene == Range(objects) \ Range(op.pre.objects)
IndexOf(o) == CHOOSE i \in DOMAIN objects : objects[i] = o

\* C6: at the end of an execution that reaches its final step, if the scene
\* holds objects that were not there before, exactly those are selected and
\* the last of them in scene order is active; otherwise the selected objects
\* are exactly those selected before the target was isolated.
C6_FinalSelection ==
  ReachedFinalStep =>
    IF NewInScene # {}
      THEN /\ SelectedIn(select) = NewInScene
           /\ active \in NewInScene
           /\ \A o \in NewInScene : IndexOf(o) <= IndexOf(active)
      ELSE SelectedIn(select) = SelectedIn(op.pre.select)

\* C6's case: two objects were imported while an object other than the target
\* was selected, and the active object is not the one created last
C6_Witness ==
  /\ ReachedFinalStep
  /\ Cardinality(NewInScene) >= 2
  /\ \E o \in SelectedIn(op.pre.select) : o # op.pre.active
  /\ \E o \in NewInScene : o > active

ExportRaised == op.raised = "RuntimeError" /\ Last(op.calls) = "export"

ManifoldRefused ==
  /\ Executed
  /\ op.pre.af.require_manifold
  /\ data[op.pre.active] = "MESH_NONMANIFOLD"

\* C8: with require_manifold set and a mesh that is not manifold, execute
\* reports one error and returns FINISHED; the selection, the active object,
\* the scene's objects and the temporary directories are as before and no
\* collaborator is called.
C8_ManifoldRefusalHasNoEffect ==
  ManifoldRefused =>
    /\ op.reports = <<[type |-> {"ERROR"}, message |-> MSG_MANIFOLD]>>
    /\ op.result = "FINISHED"
    /\ op.raised = None
    /\ op.calls = << >>
    /\ op.run = None
    /\ op.tempdir = None
    /\ objects = op.pre.objects
    /\ select = op.pre.select
    /\ active = op.pre.active
    /\ tmpdirs = op.pre.tmpdirs

\* C8's case: the refused mesh was selected together with another object
C8_Witness ==
  /\ ManifoldRefused
  /\ Cardinality(SelectedIn(op.pre.select)) >= 2

\* the label and the message of the first failing precondition, in the
\* order unset path, missing path, no remeshable object, unsupported platform
FirstFailing(path_set, path_exists, can_remesh, os_ok) ==
  IF ~path_set THEN 1
  ELSE IF ~path_exists THEN 2
  ELSE IF ~can_remesh THEN 3
  ELSE IF ~os_ok THEN 4
  ELSE 0

LabelOf(k) ==
  CASE k = 1 -> "Set QuadriFlow path"
    [] k = 2 -> "QuadriFlow path not found"
    [] k = 3 -> "Select a mesh in object mode"
    [] k = 4 -> "Autoflow is for Linux or Windows"
    [] OTHER -> "Autoflow Remesh"

MessageOf(k) ==
  CASE k = 1 -> MSG_PATH_UNSET
    [] k = 2 -> MSG_PATH_NOT_FOUND
    [] k = 3 -> MSG_NO_MESH
    [] k = 4 -> MSG_OS
    [] OTHER -> ""

FailingWhenCalled ==
  FirstFailing(op.pre.path_set, op.pre.path_exists, op.pre.can_remesh, op.pre.os_ok)

FailingNow ==
  FirstFailing(quadriflow_path_pref_is_set,
               PathExists(get_quadriflow_path_from_addon_prefs),
               object_can_be_remeshed(active),
               autoflow_is_compatible_with_os)

\* C9: the panel's button is enabled iff the four preconditions hold and
\* otherwise carries the label of the first failing one; the dialog's message
\* is chosen in the same order, so panel and dialog name the same precondition.
C9_PanelAndDialogPriority ==
  /\ op.kind = "draw" =>
       /\ op.button.enabled <=> FailingWhenCalled = 0
       /\ op.button.text = LabelOf(FailingWhenCalled)
       /\ op.button.icon = IF FailingWhenCalled = 0 THEN "FILE_TICK" ELSE "ERROR"
  /\ pre_execution_error_message = MessageOf(FailingNow)
  /\ draw_button.text = LabelOf(FailingNow)

\* C9's case: the path is missing and no remeshable object is active, and the
\* panel names the path
C9_Witness ==
  /\ op.kind = "draw"
  /\ op.pre.path_set
  /\ ~op.pre.path_exists
  /\ ~op.pre.can_remesh
  /\ ~op.pre.os_ok
  /\ ~op.button.enabled

\* C10: a dialog invocation with a failing precondition reports the first
\* failing message and aborts without opening the dialog or calling a
\* collaborator; the dialog opens only when the four preconditions hold.
C10_DialogReportsAndAborts ==
  /\ op.kind = "invoke" =>
       /\ FailingWhenCalled # 0
       /\ op.reports = <<[type |-> {"ERROR"}, message |-> MessageOf(FailingWhenCalled)]>>
       /\ op.calls = << >>
  /\ op.kind = "dialog" => FailingWhenCalled = 0

\* the timeout preference as it is stored: no element when it was never set
StoredTimeout ==
  IF PACKAGE \in addons /\ "quadriflow_timeout" \in DOMAIN preferences
    THEN {preferences["quadriflow_timeout"]} ELSE {}

\* C11: the timeout handed to the subprocess is never negative: a missing or
\* negative stored preference is read as 0, 0 runs the subprocess with no
\* timeout, and a stored n > 0 runs it with a timeout of exactly n seconds.
C11_TimeoutClampedAndZeroIsNone ==
  Launched =>
    /\ \A t \in op.timeout : t > 0
    /\ (StoredTimeout = {} \/ \E t \in StoredTimeout : t <= 0) => op.timeout = {}
    /\ (\E t \in StoredTimeout : t > 0) => op.timeout = StoredTimeout
    /\ op.run = "TimeoutExpired" => \E t \in StoredTimeout : t > 0

\* C11's case: a negative timeout is stored and the subprocess ran without one
C11_Witness ==
  /\ Launched
  /\ \E t \in StoredTimeout : t < 0
  /\ op.timeout = {}
  /\ RunReturned(op.run)

\* the path preference as it is stored: no element when it was never set or
\* the add-on's preferences are not available
StoredPath ==
  IF PACKAGE \in addons /\ "quadriflow_path" \in DOMAIN preferences
    THEN {preferences["quadriflow_path"]} ELSE {}

\* C12: quadriflow_path_pref_is_set is true exactly when the stored path
\* preference is a non-empty string, "." included, and false when the
\* add-on's preferences are not available.
C12_PathSetIffStoredNonEmpty ==
  /\ quadriflow_path_pref_is_set <=> \E stored \in StoredPath : stored # ""
  /\ op.kind = "draw" => (op.pre.path_set <=> \E stored \in StoredPath : stored # "")
  /\ PACKAGE \notin addons => ~quadriflow_path_pref_is_set

CalledImport == \E i \in DOMAIN op.calls : op.calls[i] = "import"

\* C13: the import operator is called exactly when subprocess.run returned,
\* and right after it; the exit status plays no role: after a non-zero exit
\* nothing is reported and the import is still attempted.
C13_ImportIffLaunchReturned ==
  Executed =>
    /\ CalledImport <=> op.run \in {"exit0", "exit1"}
    /\ \A i \in DOMAIN op.calls :
         op.calls[i] = "import" => i > 1 /\ op.calls[i - 1] = "run"
    /\ op.run = "exit1" => op.reports = << >> /\ CalledImport
    /\ op.run \in {"exit0", "exit1"} =>
         op.cmd # << >> /\ (op.raised = None <=> op.result = "FINISHED")

\* C13's case: QuadriFlow exited with a non-zero status and the import that
\* followed added objects to the scene
C13_Witness ==
  /\ Executed
  /\ op.run = "exit1"
  /\ CalledImport
  /\ op.result = "FINISHED"
  /\ Range(objects) \ Range(op.pre.objects) # {}

====
